---------------------------- MODULE Spec2Model ----------------------------
(***************************************************************************)
(* Model of the Ghost installer (install.py) and uninstaller               *)
(* (uninstall.py).  One behaviour is one run of one of the two scripts:    *)
(* the command line, the state of the filesystem, the operator's answers   *)
(* and the exit codes of the external commands are the inputs.             *)
(***************************************************************************)
EXTENDS Naturals, Sequences, FiniteSets

VARIABLES
    script,             \* which entry point runs: "install" or "uninstall"
    pc,                 \* position of the run inside main()
    args,               \* install: argparse namespace (no_venv, brek, yes, venv)
    os_name,            \* os.name of the host
    fs,                 \* set of paths that exist on the filesystem
    fs0,                \* the filesystem as the run found it (history)
    use_venv,           \* local of main() in both scripts
    use_brek,           \* install: local of main()
    auto_yes,           \* install: local of main()
    break_system_flag,  \* install: local of main()
    py_exe,             \* install: interpreter the pip commands target
    uninstall_system,   \* uninstall: answer to the second confirmation
    idx,                \* uninstall: position of the loop over PYTHON_PACKAGES
    asked,              \* prompts issued so far, with the operator's answers
    cmds,               \* subprocess.run calls so far: argv and return code
    out,                \* panels and lines printed on the console so far
    exit_code           \* <<status>> once the process has exited, <<>> before

vars == <<script, pc, args, os_name, fs, fs0, use_venv, use_brek, auto_yes,
          break_system_flag, py_exe, uninstall_system, idx, asked, cmds, out,
          exit_code>>

-----------------------------------------------------------------------------
(* Bounds and input sets *)

\* return codes of an external command range over 0..MaxReturnCode
MaxReturnCode == 2

ReturnCodes == 0..MaxReturnCode

\* values --venv can take: the default and one other path
VenvPaths == {".venv", "envs/ghost"}

OsNames == {"posix", "nt"}

Unset == "unset"

Range(s) == {s[i] : i \in 1..Len(s)}

-----------------------------------------------------------------------------
(* install.py: constants *)

VCS_PACKAGES ==
    << "badges @ git+https://github.com/EntySec/Badges",
       "pex @ git+https://github.com/EntySec/Pex",
       "colorscript @ git+https://github.com/EntySec/ColorScript",
       "adb-shell>=0.1.0",
       "rich>=10.0" >>

\* the entries of VCS_PACKAGES that name a version-control location ("git+")
IsVcsSourced(p) ==
    p \in { "badges @ git+https://github.com/EntySec/Badges",
            "pex @ git+https://github.com/EntySec/Pex",
            "colorscript @ git+https://github.com/EntySec/ColorScript" }

sys_executable == "sys.executable"

\* str(venv_path / "bin" / "python") resp. "Scripts" / "python.exe"
VenvPython(venv_path, os) ==
    IF os = "nt"
    THEN IF venv_path = ".venv" THEN ".venv/Scripts/python.exe"
                                ELSE "envs/ghost/Scripts/python.exe"
    ELSE IF venv_path = ".venv" THEN ".venv/bin/python"
                                ELSE "envs/ghost/bin/python"

VenvInterpreters == {VenvPython(p, o) : p \in VenvPaths, o \in OsNames}

-----------------------------------------------------------------------------
(* install.py: run, ensure_virtualenv, install_packages, install_local_package *)

\* run(cmd, check=True) with the subprocess returning rc.  `console` is the
\* console as the caller left it, `next` the caller's continuation.
run_ignoring_failure(cmd, check, rc, console, next) ==
    /\ cmds' = Append(cmds, [argv |-> cmd, rc |-> rc])
    /\ out' = IF rc # 0 THEN Append(console, "Installation Error") ELSE console
    /\ pc' = next
    /\ UNCHANGED exit_code

run(cmd, check, rc, console, next) ==
    /\ cmds' = Append(cmds, [argv |-> cmd, rc |-> rc])
    /\ IF rc # 0
       THEN /\ out' = Append(console, "Installation Error")
            /\ IF check
               THEN pc' = "exited" /\ exit_code' = <<1>>
               ELSE pc' = next /\ UNCHANGED exit_code
       ELSE /\ out' = console
            /\ pc' = next
            /\ UNCHANGED exit_code

venv_cmd(venv_path) == <<sys_executable, "-m", "venv", venv_path>>

ensure_virtualenv_always_creates(venv_path, rc, next) ==
    /\ run(venv_cmd(venv_path), TRUE, rc, Append(out, "Creating virtualenv"), next)
    /\ \E created \in BOOLEAN :
          /\ rc = 0 => created
          /\ fs' = IF created THEN fs \cup {venv_path} ELSE fs
    /\ py_exe' = IF rc = 0 THEN VenvPython(venv_path, os_name) ELSE py_exe

ensure_virtualenv(venv_path, rc, next) ==
    IF venv_path \in fs
    THEN /\ out' = Append(out, "Using existing virtualenv")
         /\ py_exe' = VenvPython(venv_path, os_name)
         /\ pc' = next
         /\ UNCHANGED <<cmds, fs, exit_code>>
    ELSE /\ run(venv_cmd(venv_path), TRUE, rc, Append(out, "Creating virtualenv"), next)
         \* the provisioner creates the directory when it succeeds; a failed
         \* provisioner may or may not leave it behind
         /\ \E created \in BOOLEAN :
               /\ rc = 0 => created
               /\ fs' = IF created THEN fs \cup {venv_path} ELSE fs
         /\ py_exe' = IF rc = 0 THEN VenvPython(venv_path, os_name) ELSE py_exe

WithBreakSystem(cmd, break_system) ==
    IF break_system THEN Append(cmd, "--break-system-packages") ELSE cmd

upgrade_cmd(py, break_system) ==
    WithBreakSystem(<<py, "-m", "pip", "install", "--upgrade", "pip">>, break_system)

install_packages_cmd(py, packages, break_system) ==
    WithBreakSystem(<<py, "-m", "pip", "install">> \o packages, break_system)

install_local_package_cmd_with_deps(py, break_system) ==
    WithBreakSystem(<<py, "-m", "pip", "install", ".">>, break_system)

install_local_package_cmd(py, break_system) ==
    WithBreakSystem(<<py, "-m", "pip", "install", ".", "--no-deps">>, break_system)

install_packages(py, packages, break_system, rc, console, next) ==
    IF packages = <<>>
    THEN /\ out' = console
         /\ pc' = next
         /\ UNCHANGED <<cmds, exit_code>>
    ELSE run(install_packages_cmd(py, packages, break_system), TRUE, rc, console, next)

install_local_package(py, break_system, rc, console, next) ==
    run(install_local_package_cmd(py, break_system), TRUE, rc, console, next)

-----------------------------------------------------------------------------
(* install.py: main *)

ModeChoices == {"venv", "brek", "system"}

\* the install mode carried by (use_venv, use_brek); the prompt's branches
\* assign venv = (TRUE, FALSE), brek = (FALSE, TRUE), system = (FALSE, FALSE)
InstallMode ==
    IF use_brek THEN "FilteredSystemOnly"
    ELSE IF use_venv THEN "UseVirtualEnv"
    ELSE "DirectSystem"

\* lines 104-133: the banner, the flags, the prompt, break_system_flag
PlanMode ==
    /\ script = "install" /\ pc = "plan"
    /\ auto_yes' = args.yes
    /\ IF ~(args.brek \/ args.no_venv) /\ ~args.yes
       THEN \E choice \in ModeChoices :
               /\ asked' = Append(asked, [prompt |-> "Choose install mode",
                                          answer |-> choice])
               /\ use_venv' = (choice = "venv")
               /\ use_brek' = (choice = "brek")
       ELSE /\ UNCHANGED asked
            /\ IF args.yes
               THEN use_venv' = TRUE /\ use_brek' = FALSE
               ELSE use_venv' = ~args.no_venv /\ use_brek' = args.brek
    /\ break_system_flag' = ~use_venv'
    /\ out' = IF break_system_flag'
              THEN out \o <<"Ghost Installer", "Notice: --break-system-packages enabled">>
              ELSE Append(out, "Ghost Installer")
    /\ pc' = "resolve"
    /\ UNCHANGED <<script, args, os_name, fs, fs0, py_exe, uninstall_system,
                   idx, cmds, exit_code>>

\* lines 135-138
ResolveEnvironment ==
    /\ script = "install" /\ pc = "resolve"
    /\ IF use_venv
       THEN \E rc \in ReturnCodes : ensure_virtualenv(args.venv, rc, "upgrade")
       ELSE /\ py_exe' = sys_executable
            /\ pc' = "upgrade"
            /\ UNCHANGED <<cmds, out, fs, exit_code>>
    /\ UNCHANGED <<script, args, os_name, fs0, use_venv, use_brek, auto_yes,
                   break_system_flag, uninstall_system, idx, asked>>

\* lines 140-144
UpgradePip ==
    /\ script = "install" /\ pc = "upgrade"
    /\ \E rc \in ReturnCodes :
          run(upgrade_cmd(py_exe, break_system_flag), TRUE, rc,
              Append(out, "Upgrading pip in target environment..."), "deps")
    /\ UNCHANGED <<script, args, os_name, fs, fs0, use_venv, use_brek, auto_yes,
                   break_system_flag, py_exe, uninstall_system, idx, asked>>

\* lines 146-147
InstallDependencies ==
    /\ script = "install" /\ pc = "deps"
    /\ \E rc \in ReturnCodes :
          install_packages(py_exe, VCS_PACKAGES, break_system_flag, rc,
                           Append(out, "Installing VCS/GitHub packages"), "local")
    /\ UNCHANGED <<script, args, os_name, fs, fs0, use_venv, use_brek, auto_yes,
                   break_system_flag, py_exe, uninstall_system, idx, asked>>

\* lines 149-150
InstallLocal ==
    /\ script = "install" /\ pc = "local"
    /\ \E rc \in ReturnCodes :
          install_local_package(py_exe, break_system_flag, rc,
                                Append(out, "Installing Ghost main package..."),
                                "complete")
    /\ UNCHANGED <<script, args, os_name, fs, fs0, use_venv, use_brek, auto_yes,
                   break_system_flag, py_exe, uninstall_system, idx, asked>>

\* lines 152-153, then the interpreter exits with status 0
InstallComplete ==
    /\ script = "install" /\ pc = "complete"
    /\ out' = out \o <<"Installation completed successfully!", "You can now run: ghost">>
    /\ pc' = "done"
    /\ exit_code' = <<0>>
    /\ UNCHANGED <<script, args, os_name, fs, fs0, use_venv, use_brek, auto_yes,
                   break_system_flag, py_exe, uninstall_system, idx, asked, cmds>>

-----------------------------------------------------------------------------
(* uninstall.py *)

PYTHON_PACKAGES == <<"ghost", "adb-shell", "pex", "badges", "colorscript">>

DEFAULT_VENV == ".venv"

\* run(cmd, check=True) of uninstall.py with the subprocess returning rc
uninstall_run_aborting(cmd, check, rc, console, next) ==
    /\ cmds' = Append(cmds, [argv |-> cmd, rc |-> rc])
    /\ IF check /\ rc # 0
       THEN /\ out' = Append(console, "Command failed")
            /\ pc' = "exited"
            /\ exit_code' = <<1>>
       ELSE /\ out' = console
            /\ pc' = next
            /\ UNCHANGED exit_code

uninstall_run(cmd, check, rc, console, next) ==
    /\ cmds' = Append(cmds, [argv |-> cmd, rc |-> rc])
    /\ out' = IF check /\ rc # 0 THEN Append(console, "Command failed") ELSE console
    /\ pc' = next
    /\ UNCHANGED exit_code

uninstall_cmd(python_exe, pkg, break_system) ==
    WithBreakSystem(<<python_exe, "-m", "pip", "uninstall", "-y", pkg>>, break_system)

\* one iteration of the loop of uninstall_packages, for PYTHON_PACKAGES[i]
uninstall_packages_iteration(python_exe, break_system, i, rc) ==
    /\ uninstall_run(uninstall_cmd(python_exe, PYTHON_PACKAGES[i], break_system),
                     TRUE, rc, Append(out, "Uninstalling package"),
                     IF i < Len(PYTHON_PACKAGES) THEN "uninstall" ELSE "complete")
    /\ idx' = i + 1

remove_virtualenv_keeping_directory(venv_path) ==
    IF venv_path \in fs
    THEN /\ UNCHANGED fs
         /\ out' = out \o <<"Removing virtualenv", "Virtualenv removed.">>
    ELSE /\ UNCHANGED fs
         /\ out' = Append(out, "No virtualenv found.")

remove_virtualenv(venv_path) ==
    IF venv_path \in fs
    THEN /\ fs' = fs \ {venv_path}
         /\ out' = out \o <<"Removing virtualenv", "Virtualenv removed.">>
    ELSE /\ UNCHANGED fs
         /\ out' = Append(out, "No virtualenv found.")

\* lines 84-90
DetectVirtualenv ==
    /\ script = "uninstall" /\ pc = "detect"
    /\ IF DEFAULT_VENV \in fs
       THEN \E answer \in BOOLEAN :
               /\ asked' = Append(asked, [prompt |-> "Detected virtualenv. Remove it?",
                                          answer |-> answer])
               /\ use_venv' = answer
               /\ IF answer
                  THEN remove_virtualenv(DEFAULT_VENV)
                  ELSE UNCHANGED <<fs, out>>
       ELSE /\ use_venv' = FALSE
            /\ UNCHANGED <<asked, fs, out>>
    /\ pc' = "confirm"
    /\ UNCHANGED <<script, args, os_name, fs0, use_brek, auto_yes,
                   break_system_flag, py_exe, uninstall_system, idx, cmds,
                   exit_code>>

\* lines 93-95
ConfirmUninstallSystem ==
    /\ script = "uninstall" /\ pc = "confirm"
    /\ \E answer \in BOOLEAN :
          /\ asked' = Append(asked, [prompt |-> "Uninstall Ghost Python packages?",
                                     answer |-> answer])
          /\ uninstall_system' = answer
          /\ IF answer
             THEN pc' = "uninstall" /\ py_exe' = sys_executable
             ELSE pc' = "complete" /\ UNCHANGED py_exe
    /\ UNCHANGED <<script, args, os_name, fs, fs0, use_venv, use_brek, auto_yes,
                   break_system_flag, idx, cmds, out, exit_code>>

\* line 96: uninstall_packages(python_exe, break_system=True), one package a step
UninstallPackage ==
    /\ script = "uninstall" /\ pc = "uninstall"
    /\ idx \in 1..Len(PYTHON_PACKAGES)
    /\ \E rc \in ReturnCodes : uninstall_packages_iteration(py_exe, TRUE, idx, rc)
    /\ UNCHANGED <<script, args, os_name, fs, fs0, use_venv, use_brek, auto_yes,
                   break_system_flag, py_exe, uninstall_system, asked>>

\* line 98, then the interpreter exits with status 0
UninstallComplete ==
    /\ script = "uninstall" /\ pc = "complete"
    /\ out' = Append(out, "Uninstall process completed.")
    /\ pc' = "done"
    /\ exit_code' = <<0>>
    /\ UNCHANGED <<script, args, os_name, fs, fs0, use_venv, use_brek, auto_yes,
                   break_system_flag, py_exe, uninstall_system, idx, asked, cmds>>

-----------------------------------------------------------------------------
(* The runs *)

\* argparse: three store_true flags and --venv with default ".venv"
ArgSpace == [no_venv : BOOLEAN, brek : BOOLEAN, yes : BOOLEAN, venv : VenvPaths]

NoArgs == [no_venv |-> FALSE, brek |-> FALSE, yes |-> FALSE, venv |-> ".venv"]

Init ==
    /\ script \in {"install", "uninstall"}
    /\ args \in IF script = "install" THEN ArgSpace ELSE {NoArgs}
    /\ pc = IF script = "install" THEN "plan" ELSE "detect"
    /\ os_name \in OsNames
    /\ fs \in SUBSET VenvPaths
    /\ fs0 = fs
    /\ use_venv = FALSE
    /\ use_brek = FALSE
    /\ auto_yes = FALSE
    /\ break_system_flag = FALSE
    /\ py_exe = Unset
    /\ uninstall_system = FALSE
    /\ idx = 1
    /\ asked = <<>>
    /\ cmds = <<>>
    /\ out = <<>>
    /\ exit_code = <<>>

Next ==
    \/ PlanMode
    \/ ResolveEnvironment
    \/ UpgradePip
    \/ InstallDependencies
    \/ InstallLocal
    \/ InstallComplete
    \/ DetectVirtualenv
    \/ ConfirmUninstallSystem
    \/ UninstallPackage
    \/ UninstallComplete

Spec == Init /\ [][Next]_vars

-----------------------------------------------------------------------------
(* Vocabulary of the properties *)

IsPrefix(s, t) == Len(s) <= Len(t) /\ \A i \in 1..Len(s) : s[i] = t[i]

Count(s, x) == Cardinality({i \in 1..Len(s) : s[i] = x})

Planned == script = "install" /\ pc # "plan"

InstallCompleted == "Installation completed successfully!" \in Range(out)

UninstallCompleted == "Uninstall process completed." \in Range(out)

IsProvisionerCmd(argv) == Len(argv) >= 3 /\ argv[2] = "-m" /\ argv[3] = "venv"

IsPipCmd(argv) == Len(argv) >= 3 /\ argv[2] = "-m" /\ argv[3] = "pip"

ProvisionerCalls == {i \in 1..Len(cmds) : IsProvisionerCmd(cmds[i].argv)}

\* the step of the install sequence a command line belongs to
StepOf(argv) ==
    IF IsProvisionerCmd(argv) THEN "provision"
    ELSE IF ~IsPipCmd(argv) \/ Len(argv) < 5 \/ argv[4] # "install" THEN "other"
    ELSE IF argv[5] = "--upgrade" /\ Len(argv) >= 6 /\ argv[6] = "pip" THEN "upgrade"
    ELSE IF argv[5] = "." /\ "--no-deps" \in Range(argv) THEN "local"
    ELSE IF /\ Len(argv) >= 4 + Len(VCS_PACKAGES)
            /\ SubSeq(argv, 5, 4 + Len(VCS_PACKAGES)) = VCS_PACKAGES THEN "dependencies"
    ELSE "other"

IssuedSteps == [i \in 1..Len(cmds) |-> StepOf(cmds[i].argv)]

PipSteps == <<"upgrade", "dependencies", "local">>

\* the packages the uninstall commands issued so far name, in order
UninstallTargets ==
    [i \in 1..Len(cmds) |->
        IF IsPipCmd(cmds[i].argv) /\ Len(cmds[i].argv) >= 6 /\ cmds[i].argv[4] = "uninstall"
        THEN cmds[i].argv[6] ELSE "?"]

FailedCmds == {i \in 1..Len(cmds) : cmds[i].rc # 0}

-----------------------------------------------------------------------------
(* Properties *)

\* C1: in install, whenever --no-venv is given the bypass-protection flag is
\* true, whatever --brek, --yes and --venv are: no virtual environment is used
\* and every pip command of the run carries --break-system-packages.
C1_NoVenvForcesBypass ==
    (Planned /\ args.no_venv) =>
        /\ break_system_flag
        /\ ~use_venv
        /\ ProvisionerCalls = {}
        /\ \A i \in 1..Len(cmds) :
              IsPipCmd(cmds[i].argv) =>
                  "--break-system-packages" \in Range(cmds[i].argv)

\* C2: in every install run the bypass-protection flag is set if and only if
\* the selected install mode is not UseVirtualEnv: set in FilteredSystemOnly
\* and in DirectSystem, unset in UseVirtualEnv.
C2_BypassIffNotVirtualEnv ==
    Planned => (break_system_flag <=> InstallMode # "UseVirtualEnv")

\* C3: in the filtered/system-only mode (--brek, or 'brek' at the prompt) no
\* package sourced from a version-control location is passed to the package
\* installer.
C3_FilteredModeInstallsNoVcsPackage ==
    (Planned /\ InstallMode = "FilteredSystemOnly") =>
        \A i \in 1..Len(cmds) : \A w \in Range(cmds[i].argv) : ~IsVcsSourced(w)

\* C4: install is fail-fast: a command that returns non-zero is the last
\* command of the run, the run ends with a non-zero exit status and the
\* completion message is not printed; the completion message is printed only
\* when every executed command returned 0.
C4_InstallFailFast ==
    script = "install" =>
        /\ \A i \in FailedCmds :
              /\ i = Len(cmds)
              /\ pc = "exited"
              /\ exit_code # <<>> /\ exit_code # <<0>>
              /\ ~InstallCompleted
        /\ InstallCompleted => FailedCmds = {}
        /\ pc = "exited" => FailedCmds # {}

C4_Witness ==
    /\ script = "install" /\ pc = "exited"
    /\ Len(cmds) >= 2 /\ cmds[1].rc = 0 /\ cmds[Len(cmds)].rc # 0
    /\ StepOf(cmds[Len(cmds)].argv) = "dependencies"

\* C5: the external commands of an install run are issued in the fixed order
\* provisioner (if any), installer upgrade, remote-sourced package list, local
\* package with --no-deps; each at most once, none before the mode is decided,
\* and a completed run has issued all of them.
C5_InstallOrder ==
    script = "install" =>
        /\ \/ IsPrefix(IssuedSteps, PipSteps)
           \/ IsPrefix(IssuedSteps, <<"provision">> \o PipSteps)
        /\ pc = "plan" => cmds = <<>>
        /\ pc = "done" => Len(IssuedSteps) >= Len(PipSteps)
                          /\ IssuedSteps[Len(IssuedSteps)] = "local"

C5_Witness ==
    /\ script = "install" /\ pc = "done"
    /\ IssuedSteps = <<"provision">> \o PipSteps

C7_UninstallContinuesAfterFailure ==
    script = "uninstall" =>
        /\ IsPrefix(UninstallTargets, PYTHON_PACKAGES)
        /\ Count(out, "Command failed") = Cardinality(FailedCmds)
        /\ pc # "exited"
        /\ pc = "uninstall" => idx = Len(cmds) + 1 /\ ENABLED UninstallPackage
        /\ (pc = "done" /\ uninstall_system) =>
              UninstallTargets = PYTHON_PACKAGES /\ UninstallCompleted

C7_Witness ==
    /\ script = "uninstall" /\ pc = "done" /\ uninstall_system
    /\ Len(cmds) = Len(PYTHON_PACKAGES)
    /\ UninstallTargets[3] = "pex" /\ cmds[3].rc # 0
    /\ UninstallCompleted

\* C8: when uninstall finds a virtual environment at the default path and the
\* operator confirms its removal, the directory does not exist when the run
\* ends and the completion message is printed, whatever the answer to the
\* second confirmation; the run can always proceed to its end.
C8_ConfirmedRemovalRemovesVenv ==
    (script = "uninstall" /\ DEFAULT_VENV \in fs0) =>
        /\ (pc = "done" /\ use_venv) =>
              /\ DEFAULT_VENV \notin fs
              /\ UninstallCompleted
              /\ exit_code = <<0>>
        /\ pc # "done" => ENABLED Next
        /\ pc \notin {"detect"} => Len(asked) >= 1 /\ asked[1].answer = use_venv

C8_Witness ==
    /\ script = "uninstall" /\ pc = "done"
    /\ DEFAULT_VENV \in fs0 /\ use_venv /\ uninstall_system
    /\ DEFAULT_VENV \notin fs /\ UninstallCompleted

\* C9: whenever one of --no-venv, --brek, --yes is given no prompt is issued
\* and the documented mode is produced (--no-venv: DirectSystem, --brek:
\* FilteredSystemOnly, --yes alone: UseVirtualEnv without bypass); when none is
\* given the prompt is issued exactly once and the mode is the operator's
\* choice.
C9_FlagsDecideMode ==
    Planned =>
        IF args.no_venv \/ args.brek \/ args.yes
        THEN /\ asked = <<>>
             /\ (args.no_venv /\ ~args.brek) => InstallMode = "DirectSystem"
             /\ (args.brek /\ ~args.no_venv) => InstallMode = "FilteredSystemOnly"
             /\ (args.no_venv /\ args.brek) =>
                    InstallMode \in {"DirectSystem", "FilteredSystemOnly"}
             /\ (args.yes /\ ~args.no_venv /\ ~args.brek) =>
                    InstallMode = "UseVirtualEnv" /\ ~break_system_flag
        ELSE /\ Len(asked) = 1
             /\ InstallMode = CASE asked[1].answer = "venv" -> "UseVirtualEnv"
                                [] asked[1].answer = "brek" -> "FilteredSystemOnly"
                                [] OTHER -> "DirectSystem"

\* C10: when uninstall finds no virtual environment at the default path, it
\* prints the 'No virtualenv found' notice, goes on to the package-uninstall
\* confirmation and ends with the completion message.
C10_AbsenceIsReported ==
    (script = "uninstall" /\ pc = "done" /\ DEFAULT_VENV \notin fs0) =>
        /\ "No virtualenv found." \in Range(out)
        /\ UninstallCompleted

=============================================================================
